---- MODULE Spec2Model ----
(***************************************************************************)
(* Model of the TranscriptManager MCP server (src/src/index.ts): the       *)
(* generate-notes-from-source tool handler, the course path tables it      *)
(* reads, and main().                                                      *)
(*                                                                         *)
(* Strings are sequences of tokens; a token is one whitespace character    *)
(* (" ") or a piece of text without whitespace.  Transcript texts are      *)
(* written one character per token, so Len is the JavaScript .length.      *)
(* A JavaScript value is a record [t |-> type tag, v |-> string].          *)
(***************************************************************************)
EXTENDS Integers, Sequences, FiniteSets, TLC

VARIABLES proc, exitCode, inbox, delivered, running, h

vars == <<proc, exitCode, inbox, delivered, running, h>>

\* The number of tool calls the client sends in a run of SpecConc.
MaxCalls == 2

Calls == 1..MaxCalls

----------------------------------------------------------------------------
(* JavaScript values *)

Str(s) == [t |-> "string", v |-> s]
Undefined == [t |-> "undefined", v |-> <<>>]
Null == [t |-> "null", v |-> <<>>]
Num(s) == [t |-> "number", v |-> s]
Bool(b) == [t |-> "boolean", v |-> IF b THEN <<"true">> ELSE <<"false">>]
\* A built-in function object, such as Object or Object.prototype.toString.
Fn(name) == [t |-> "function", v |-> <<name>>]

IsString(x) == x.t = "string"

\* ToBoolean, as applied by ||, ! and if.
Truthy(x) ==
    CASE x.t = "undefined" -> FALSE
      [] x.t = "null" -> FALSE
      [] x.t = "string" -> x.v # <<>>
      [] x.t = "number" -> x.v # <<"0">>
      [] x.t = "boolean" -> x.v = <<"true">>
      [] OTHER -> TRUE

\* a || b
Or(a, b) == IF Truthy(a) THEN a ELSE b

----------------------------------------------------------------------------
(* The course tables and the defaults *)

Math == <<"Math">>
ApproxAlgo == <<"Approximations", " ", "Algorithms">>

COURSE_NOTES_PATHS ==
    (Math :> <<"/", "Users/lmarte/Documents/Obsidian", " ", "Vault/Math">>)
    @@ (ApproxAlgo :> <<"/", "Users/lmarte/Documents/Obsidian", " ", "Vault/Approx-Algo-LP">>)

COURSE_TRANSCRIPT_PATHS ==
    (Math :> <<"/", "Users/lmarte/Documents/Obsidian", " ", "Vault/Math/transcripts">>)
    @@ (ApproxAlgo :> <<"/", "Users/lmarte/Documents/Projects/CU-Boulder/Data-Structures-Algo/Approx-Algo-LP">>)

DEFAULT_NOTES_PATH == <<"/", "Users/lmarte/Documents/Obsidian", " ", "Vault">>
DEFAULT_TRANSCRIPT_PATH == <<"/", "Users/lmarte/Documents/Transcripts">>

\* Property names every object literal inherits from Object.prototype.
ObjectPrototypeKeys == {<<"constructor">>, <<"toString">>}

\* table[key] on an object literal: an own property, else a property
\* inherited from Object.prototype, else undefined.
Lookup(table, key) ==
    IF key \in DOMAIN table THEN Str(table[key])
    ELSE IF key \in ObjectPrototypeKeys THEN Fn(key[1])
    ELSE Undefined

----------------------------------------------------------------------------
(* String and path helpers *)

IsSpace(c) == c = " "

\* s.replace(/\s+/g, '-'): every maximal run of whitespace becomes one hyphen.
RECURSIVE ReplaceWs(_)
ReplaceWs(s) ==
    IF s = <<>> THEN <<>>
    ELSE IF IsSpace(Head(s))
         THEN IF Len(s) > 1 /\ IsSpace(s[2])
              THEN ReplaceWs(Tail(s))
              ELSE <<"-">> \o ReplaceWs(Tail(s))
         ELSE <<Head(s)>> \o ReplaceWs(Tail(s))

\* path.isAbsolute on a string
IsAbsolute(p) == Len(p) > 0 /\ p[1] = "/"

\* path.join(a, b) throws a TypeError unless both arguments are strings.
JoinThrows(a, b) == ~IsString(a) \/ ~IsString(b)

\* path.join(a, b) on strings: empty segments are skipped.
Join(a, b) ==
    IF b = <<>> THEN a
    ELSE IF a = <<>> THEN b
    ELSE a \o <<"/">> \o b

\* `${courseName.replace(/\s+/g, '-')}-Lecture-${lectureNumber}${suffix}`
DerivedName(p, suffix) ==
    ReplaceWs(p.courseName.v) \o <<"-Lecture-">> \o p.lectureNumber.v \o suffix

----------------------------------------------------------------------------
(* Tool calls: what the client sends and what the schema lets through *)

SourceTypes == {<<"local-file">>, <<"youtube">>, <<"api">>}

LinearAlgebra == <<"Linear", " ", " ", "Algebra">>

CourseNames == {Math, ApproxAlgo, LinearAlgebra, <<"constructor">>, <<"toString">>}

\* The calls the client may send.  The api* and formatting fields only feed
\* command and prompt strings and are left out.
ValidRequests ==
    [courseName : {Str(c) : c \in CourseNames},
     lectureNumber : {Str(<<"3">>)},
     sourceType : {Str(x) : x \in SourceTypes},
     sourceLocation : {Str(<<"lec1.txt">>), Str(<<"/", "tmp/lec1.txt">>)},
     outputDirectory : {Undefined, Str(<<"/", "out">>)},
     outputFilename : {Undefined},
     saveTranscript : {Undefined, Bool(TRUE), Bool(FALSE)},
     transcriptFilename : {Undefined, Str(<<>>), Str(<<"t.txt">>)}]

BaseRequest ==
    [courseName |-> Str(Math), lectureNumber |-> Str(<<"3">>),
     sourceType |-> Str(<<"api">>), sourceLocation |-> Str(<<"lec1.txt">>),
     outputDirectory |-> Undefined, outputFilename |-> Undefined,
     saveTranscript |-> Undefined, transcriptFilename |-> Undefined]

\* Calls of invalid shape: an unknown sourceType, a missing required field.
InvalidRequests ==
    {[BaseRequest EXCEPT !.sourceType = Str(<<"ftp">>)],
     [BaseRequest EXCEPT !.courseName = Undefined],
     [BaseRequest EXCEPT !.sourceType = Undefined, !.saveTranscript = Bool(TRUE)]}

Requests == ValidRequests \cup InvalidRequests

\* The calls of a run with several calls in flight.
ConcRequests ==
    {r \in ValidRequests :
        /\ r.courseName = Str(Math)
        /\ r.sourceLocation = Str(<<"lec1.txt">>)
        /\ r.outputDirectory = Undefined
        /\ r.transcriptFilename = Undefined
        /\ r.saveTranscript \in {Undefined, Bool(FALSE)}}
    \cup {[BaseRequest EXCEPT !.sourceType = Str(<<"ftp">>)]}

Optional(x, type) == x.t = "undefined" \/ x.t = type

\* The zod object schema of generate-notes-from-source.
Schema(r) ==
    /\ IsString(r.courseName)
    /\ IsString(r.lectureNumber)
    /\ IsString(r.sourceType) /\ r.sourceType.v \in SourceTypes
    /\ IsString(r.sourceLocation)
    /\ Optional(r.outputDirectory, "string")
    /\ Optional(r.outputFilename, "string")
    /\ Optional(r.saveTranscript, "boolean")
    /\ Optional(r.transcriptFilename, "string")

\* The parsed params the handler receives: saveTranscript defaults to true.
Parse(r) ==
    [r EXCEPT !.saveTranscript = IF @.t = "undefined" THEN Bool(TRUE) ELSE @]

----------------------------------------------------------------------------
(* What the environment may answer *)

Hi == <<"h", "i">>

\* fs.readFile: the file is unreadable, or it holds a (possibly empty) text.
ReadResults ==
    {[ok |-> FALSE, text |-> <<>>], [ok |-> TRUE, text |-> <<>>], [ok |-> TRUE, text |-> Hi]}

\* The video-transcript collaborator: exit status and stdout.
YtOutcomes ==
    {[exit |-> 1, stdout |-> <<>>], [exit |-> 0, stdout |-> <<>>], [exit |-> 0, stdout |-> Hi]}

Obj(hasData, data) == [t |-> "object", v |-> <<>>, hasData |-> hasData, data |-> data]

\* stdout of the HTTP-fetch collaborator: text that is not JSON, or the JSON
\* text of a value.
NotJson == [json |-> FALSE, value |-> Null]
Json(value) == [json |-> TRUE, value |-> value]

ApiStdouts ==
    {NotJson, Json(Null), Json(Num(<<"5">>)), Json(Obj(FALSE, Undefined)),
     Json(Obj(TRUE, Str(<<>>))), Json(Obj(TRUE, Str(Hi))),
     Json(Obj(TRUE, Num(<<"5">>))), Json(Obj(TRUE, Null))}

ApiOutcomes ==
    {[exit |-> 1, stdout |-> NotJson]} \cup {[exit |-> 0, stdout |-> s] : s \in ApiStdouts}

NoOutcome == [exit |-> 0, stdout |-> <<>>]

----------------------------------------------------------------------------
(* The handler's pure steps *)

\* Step 1 of the handler: course paths with their defaults, and whether the
\* unknown-course warning is logged.
Resolve(courseName) ==
    [notesPath |-> Or(Lookup(COURSE_NOTES_PATHS, courseName), Str(DEFAULT_NOTES_PATH)),
     transcriptPath |-> Or(Lookup(COURSE_TRANSCRIPT_PATHS, courseName),
                           Str(DEFAULT_TRANSCRIPT_PATH)),
     warned |-> ~Truthy(Lookup(COURSE_NOTES_PATHS, courseName))]

\* A variant of ExecSyncThrows that ignores the exit status.
ExecSyncIgnoresExit(o) == FALSE

\* execSync throws when the child exits with a non-zero status.
ExecSyncThrows(o) == o.exit # 0

\* JSON.parse(stdout).data throws on text that is not JSON and on JSON null.
ApiDataThrows(out) == ~out.json \/ out.value.t = "null"

\* JSON.parse(stdout).data otherwise: the data property, undefined if absent.
ApiData(out) ==
    IF out.value.t = "object" /\ out.value.hasData THEN out.value.data ELSE Undefined

\* A variant of ShouldSave that saves whatever the flag says.
AlwaysSave(p) == TRUE

\* if (params.saveTranscript)
ShouldSave(p) == Truthy(p.saveTranscript)

\* The suffix of the derived transcript filename, per source type.
Suffix(p) == IF p.sourceType.v = <<"youtube">> THEN <<"-YT.txt">> ELSE <<"-API.txt">>

\* params.transcriptFilename || derived name
TranscriptFilename(p) == Or(p.transcriptFilename, Str(DerivedName(p, Suffix(p))))

\* A variant of WriteFileRejects that coerces any data to a string and writes it.
WriteFileCoerces(data) == FALSE

\* fs.writeFile rejects data that is neither a string nor a buffer before it
\* touches the file.
WriteFileRejects(data) == ~IsString(data)

\* x.length inside the success text throws on undefined and null.
LengthThrows(x) == x.t \in {"undefined", "null"}

\* x.length: the number of characters of a string, undefined on a number.
LengthOf(x) ==
    IF IsString(x) THEN [defined |-> TRUE, n |-> Len(x.v)]
    ELSE [defined |-> FALSE, n |-> 0]

\* A variant of ThreadDuringExec for an asynchronous exec: the thread is released.
ThreadReleased(k) == 0

\* execSync blocks the process: the calling handler keeps the thread while
\* the child runs.
ThreadDuringExec(k) == k

----------------------------------------------------------------------------
(* State *)

NoParams == [BaseRequest EXCEPT !.courseName = Undefined, !.sourceType = Undefined]

NoResponse == [isError |-> FALSE, kind |-> "none", length |-> [defined |-> FALSE, n |-> 0]]

\* A call that has not been delivered.
Idle ==
    [pc |-> "idle", params |-> NoParams,
     notesPath |-> Undefined, transcriptPath |-> Undefined, warned |-> FALSE,
     transcriptContent |-> Str(<<>>), originalTranscriptPath |-> Str(<<>>),
     response |-> NoResponse,
     effects |-> <<>>, writes |-> <<>>, outcome |-> NoOutcome,
     readOk |-> TRUE, writeOk |-> TRUE, failedAt |-> "none"]

\* The response of the local-file branch when the read fails.
ReadError(hk) ==
    [hk EXCEPT !.pc = "done",
               !.response = [isError |-> TRUE, kind |-> "read-error",
                             length |-> [defined |-> FALSE, n |-> 0]],
               !.failedAt = "acquire"]

\* A variant of Catch whose envelope lacks the isError flag.
CatchNoFlag(hk, stage) ==
    [hk EXCEPT !.pc = "done",
               !.response = [isError |-> FALSE, kind |-> "catch",
                             length |-> [defined |-> FALSE, n |-> 0]],
               !.failedAt = stage]

\* The handler's outer catch: any exception becomes an error envelope.
Catch(hk, stage) ==
    [hk EXCEPT !.pc = "done",
               !.response = [isError |-> TRUE, kind |-> "catch",
                             length |-> [defined |-> FALSE, n |-> 0]],
               !.failedAt = stage]

\* The success envelope.
Success(hk) ==
    [hk EXCEPT !.pc = "done",
               !.response = [isError |-> FALSE, kind |-> "success",
                             length |-> LengthOf(hk.transcriptContent)]]

TypeOk ==
    /\ proc \in {"starting", "running", "exited"}
    /\ exitCode \in {-1, 1}
    /\ delivered \in 0..Len(inbox)
    /\ running \in 0..MaxCalls
    /\ DOMAIN h = Calls

InitState ==
    /\ proc = "starting"
    /\ exitCode = -1
    /\ delivered = 0
    /\ running = 0
    /\ h = [k \in Calls |-> Idle]

\* One call, of any shape.
Init == InitState /\ inbox \in [1..1 -> Requests]

\* MaxCalls calls, which may be in flight together.
InitConc == InitState /\ inbox \in [Calls -> ConcRequests]

----------------------------------------------------------------------------
(* main() *)

\* server.connect(transport) resolves.
MainConnected ==
    /\ proc = "starting"
    /\ proc' = "running"
    /\ UNCHANGED <<exitCode, inbox, delivered, running, h>>

\* server.connect(transport) rejects: process.exit(1).
MainConnectFailed ==
    /\ proc = "starting"
    /\ proc' = "exited"
    /\ exitCode' = 1
    /\ UNCHANGED <<inbox, delivered, running, h>>

----------------------------------------------------------------------------
(* A tool call *)

\* The next call arrives and passes the schema: the handler is scheduled
\* with the parsed params.
Deliver(k) ==
    /\ proc = "running" /\ running = 0
    /\ k = delivered + 1 /\ k <= Len(inbox)
    /\ Schema(inbox[k])
    /\ delivered' = k
    /\ h' = [h EXCEPT ![k] = [@ EXCEPT !.pc = "queued", !.params = Parse(inbox[k])]]
    /\ UNCHANGED <<proc, exitCode, inbox, running>>

\* The next call arrives and fails the schema: the handler is never invoked.
Reject(k) ==
    /\ proc = "running" /\ running = 0
    /\ k = delivered + 1 /\ k <= Len(inbox)
    /\ ~Schema(inbox[k])
    /\ delivered' = k
    /\ h' = [h EXCEPT ![k] = [@ EXCEPT !.pc = "rejected"]]
    /\ UNCHANGED <<proc, exitCode, inbox, running>>

\* The handler starts: it resolves the course paths.
Start(k) ==
    /\ proc = "running" /\ running = 0
    /\ h[k].pc = "queued"
    /\ LET r == Resolve(h[k].params.courseName.v) IN
       h' = [h EXCEPT ![k] = [@ EXCEPT !.pc = "resolved",
                                        !.notesPath = r.notesPath,
                                        !.transcriptPath = r.transcriptPath,
                                        !.warned = r.warned]]
    /\ running' = k
    /\ UNCHANGED <<proc, exitCode, inbox, delivered>>

\* local-file: the path is computed and fs.readFile is awaited.
LocalFileRead(k) ==
    /\ running = k /\ h[k].pc = "resolved"
    /\ h[k].params.sourceType.v = <<"local-file">>
    /\ LET p == h[k].params
           loc == p.sourceLocation IN
       IF ~IsAbsolute(loc.v) /\ JoinThrows(h[k].transcriptPath, loc)
       THEN h' = [h EXCEPT ![k] = Catch(@, "acquire")]
       ELSE h' = [h EXCEPT ![k] =
                    [@ EXCEPT !.pc = "awaitRead",
                              !.originalTranscriptPath =
                                  IF IsAbsolute(loc.v) THEN loc
                                  ELSE Str(Join(h[k].transcriptPath.v, loc.v)),
                              !.effects = Append(@, "read")]]
    /\ running' = 0
    /\ UNCHANGED <<proc, exitCode, inbox, delivered>>

\* fs.readFile settles: the text is kept, or the error response is returned.
ReadSettle(k) ==
    /\ running = 0 /\ h[k].pc = "awaitRead"
    /\ \E r \in ReadResults :
         IF r.ok
         THEN /\ h' = [h EXCEPT ![k] = [@ EXCEPT !.pc = "acquired",
                                                  !.transcriptContent = Str(r.text)]]
              /\ running' = k
         ELSE /\ h' = [h EXCEPT ![k] = ReadError([@ EXCEPT !.readOk = FALSE])]
              /\ running' = 0
    /\ UNCHANGED <<proc, exitCode, inbox, delivered>>

\* youtube, api: execSync starts the collaborator.
ExecSyncCall(k) ==
    /\ running = k /\ h[k].pc = "resolved"
    /\ h[k].params.sourceType.v \in {<<"youtube">>, <<"api">>}
    /\ h' = [h EXCEPT ![k] = [@ EXCEPT !.pc = "inExec", !.effects = Append(@, "exec")]]
    /\ running' = ThreadDuringExec(k)
    /\ UNCHANGED <<proc, exitCode, inbox, delivered>>

\* youtube: the collaborator exits; its stdout is the transcript.
YoutubeExecReturn(k) ==
    /\ running = ThreadDuringExec(k) /\ h[k].pc = "inExec"
    /\ h[k].params.sourceType.v = <<"youtube">>
    /\ \E o \in YtOutcomes :
         IF ExecSyncThrows(o)
         THEN /\ h' = [h EXCEPT ![k] = Catch([@ EXCEPT !.outcome = o], "acquire")]
              /\ running' = 0
         ELSE /\ h' = [h EXCEPT ![k] = [@ EXCEPT !.pc = "fetched", !.outcome = o,
                                                  !.transcriptContent = Str(o.stdout)]]
              /\ running' = k
    /\ UNCHANGED <<proc, exitCode, inbox, delivered>>

\* api: the collaborator exits; the data property of its JSON output is the
\* transcript.
ApiExecReturn(k) ==
    /\ running = ThreadDuringExec(k) /\ h[k].pc = "inExec"
    /\ h[k].params.sourceType.v = <<"api">>
    /\ \E o \in ApiOutcomes :
         IF ExecSyncThrows(o) \/ ApiDataThrows(o.stdout)
         THEN /\ h' = [h EXCEPT ![k] = Catch([@ EXCEPT !.outcome = o], "acquire")]
              /\ running' = 0
         ELSE /\ h' = [h EXCEPT ![k] = [@ EXCEPT !.pc = "fetched", !.outcome = o,
                                                  !.transcriptContent = ApiData(o.stdout)]]
              /\ running' = k
    /\ UNCHANGED <<proc, exitCode, inbox, delivered>>

\* youtube, api: if saveTranscript, the filename and path are computed and
\* fs.writeFile is awaited.
Persist(k) ==
    /\ running = k /\ h[k].pc = "fetched"
    /\ LET p == h[k].params
           name == TranscriptFilename(p) IN
       IF ~ShouldSave(p)
       THEN /\ h' = [h EXCEPT ![k] = [@ EXCEPT !.pc = "acquired"]]
            /\ running' = k
       ELSE IF JoinThrows(h[k].transcriptPath, name)
       THEN /\ h' = [h EXCEPT ![k] = Catch(@, "persist")]
            /\ running' = 0
       ELSE IF WriteFileRejects(h[k].transcriptContent)
       THEN /\ h' = [h EXCEPT ![k] =
                       Catch([@ EXCEPT !.originalTranscriptPath =
                                           Str(Join(h[k].transcriptPath.v, name.v))],
                             "persist")]
            /\ running' = 0
       ELSE /\ h' = [h EXCEPT ![k] =
                       [@ EXCEPT !.pc = "awaitWrite",
                                 !.originalTranscriptPath =
                                     Str(Join(h[k].transcriptPath.v, name.v)),
                                 !.effects = Append(@, "write")]]
            /\ running' = 0
    /\ UNCHANGED <<proc, exitCode, inbox, delivered>>

\* fs.writeFile settles: the file is written, or the error is thrown.
WriteSettle(k) ==
    /\ running = 0 /\ h[k].pc = "awaitWrite"
    /\ \E ok \in BOOLEAN :
         IF ok
         THEN /\ h' = [h EXCEPT ![k] =
                         [@ EXCEPT !.pc = "acquired",
                                   !.writes = Append(@, [path |-> h[k].originalTranscriptPath.v,
                                                         content |-> h[k].transcriptContent.v])]]
              /\ running' = k
         ELSE /\ h' = [h EXCEPT ![k] = Catch([@ EXCEPT !.writeOk = FALSE], "persist")]
              /\ running' = 0
    /\ UNCHANGED <<proc, exitCode, inbox, delivered>>

\* Steps 3 to 5 and the return: the output path is computed and the success
\* envelope is built.  The note-taker command is only a string; nothing runs it.
Finish(k) ==
    /\ running = k /\ h[k].pc = "acquired"
    /\ LET p == h[k].params
           outputDirectory == Or(p.outputDirectory, h[k].notesPath)
           outputFilename == Or(p.outputFilename, Str(DerivedName(p, <<>>))) IN
       IF JoinThrows(outputDirectory, Str(outputFilename.v \o <<".md">>))
          \/ LengthThrows(h[k].transcriptContent)
       THEN h' = [h EXCEPT ![k] = Catch(@, "finish")]
       ELSE h' = [h EXCEPT ![k] = Success(@)]
    /\ running' = 0
    /\ UNCHANGED <<proc, exitCode, inbox, delivered>>

Next ==
    \/ MainConnected
    \/ MainConnectFailed
    \/ \E k \in Calls :
         \/ Deliver(k) \/ Reject(k) \/ Start(k)
         \/ LocalFileRead(k) \/ ReadSettle(k)
         \/ ExecSyncCall(k) \/ YoutubeExecReturn(k) \/ ApiExecReturn(k)
         \/ Persist(k) \/ WriteSettle(k) \/ Finish(k)

Spec == Init /\ [][Next]_vars

SpecConc == InitConc /\ [][Next]_vars

----------------------------------------------------------------------------
(* Vocabulary of the properties *)

Has(seq, x) == \E i \in DOMAIN seq : seq[i] = x

Count(seq, x) == Cardinality({i \in DOMAIN seq : seq[i] = x})

TypeOf(k) == h[k].params.sourceType.v

Saving(k) == h[k].params.saveTranscript = Bool(TRUE)

\* The handler of call k has run its acquisition step to the end.
PastAcquisition(k) == h[k].pc \in {"fetched", "awaitWrite", "acquired", "done"}

Succeeded(k) == h[k].pc = "done" /\ h[k].response.kind = "success"

\* A file write was started or completed for call k.
Wrote(k) == Has(h[k].effects, "write") \/ h[k].writes # <<>>

\* The HTTP-fetch collaborator exited non-zero, printed text that is not JSON,
\* or printed JSON without a data field.
ApiFailed(o) ==
    \/ o.exit # 0
    \/ ~o.stdout.json
    \/ o.stdout.value.t # "object"
    \/ ~o.stdout.value.hasData

\* The acquisition of call k failed: the file was unreadable, or the
\* collaborator failed.
AcquisitionFailed(k) ==
    \/ TypeOf(k) = <<"local-file">> /\ ~h[k].readOk
    \/ TypeOf(k) = <<"youtube">> /\ h[k].outcome.exit # 0
    \/ TypeOf(k) = <<"api">> /\ PastAcquisition(k) /\ ApiFailed(h[k].outcome)

\* The handler of call k is between its start and its return.
Started(k) ==
    h[k].pc \in {"resolved", "awaitRead", "inExec", "fetched", "awaitWrite", "acquired"}

\* The handler of call k is inside a synchronous stretch: started or resumed,
\* and not suspended at an await.
InSyncStretch(k) == h[k].pc \in {"resolved", "inExec", "fetched", "acquired"}

----------------------------------------------------------------------------
(* Properties *)

\* C2: every call that ends in a success envelope has invoked the
\* note-rendering collaborator exactly once before the envelope is returned.
C2_DelegatedOnce ==
    \A k \in Calls : Succeeded(k) => Count(h[k].effects, "note") = 1

\* C3: once acquisition fails, no transcript write and no note delegation
\* happens and the call never ends in a success envelope; once the transcript
\* write fails, no note delegation happens; in each case the call ends with an
\* error envelope.
C3_ShortCircuit ==
    \A k \in Calls :
        /\ AcquisitionFailed(k) =>
              /\ ~Wrote(k)
              /\ ~Has(h[k].effects, "note")
              /\ h[k].response.kind # "success"
              /\ (h[k].pc = "done" => h[k].response.isError)
        /\ ~h[k].writeOk =>
              /\ ~Has(h[k].effects, "note")
              /\ h[k].pc = "done" /\ h[k].response.isError

\* C3 witness: a youtube call that asked to save its transcript ended after
\* the collaborator exited non-zero.
C3_Witness ==
    \E k \in Calls :
        /\ h[k].pc = "done" /\ TypeOf(k) = <<"youtube">> /\ Saving(k)
        /\ h[k].outcome.exit # 0

\* A request-level failure of call k: unreadable file, collaborator failure,
\* write failure, or any exception inside the handler.
RequestFailed(k) ==
    \/ AcquisitionFailed(k)
    \/ ~h[k].writeOk
    \/ h[k].failedAt # "none"

\* C4: every request-level failure yields isError=true and leaves the process
\* running; the process exits only when connecting the transport fails at
\* startup, and then with a non-zero status.
C4_FailuresAreErrors ==
    /\ \A k \in Calls :
          h[k].pc = "done" /\ RequestFailed(k) =>
              h[k].response.isError /\ proc = "running"
    /\ proc = "exited" => exitCode # 0 /\ delivered = 0
    /\ proc # "exited" => exitCode = -1

\* C4 witness: an api call ended after the collaborator printed text that is
\* not JSON.
C4_Witness ==
    \E k \in Calls :
        /\ h[k].pc = "done" /\ TypeOf(k) = <<"api">>
        /\ h[k].outcome.exit = 0 /\ ~h[k].outcome.stdout.json
        /\ h[k].response.isError /\ proc = "running"

\* C5: for every course name that is not a key of the course mapping, path
\* resolution yields exactly the default notes and transcript directories and
\* the call does not fail because of it.
C5_UnmappedGetsDefaults ==
    \A k \in Calls :
        /\ h[k].pc \notin {"idle", "queued", "rejected"}
        /\ h[k].params.courseName.v \notin DOMAIN COURSE_NOTES_PATHS
        /\ h[k].params.courseName.v \notin DOMAIN COURSE_TRANSCRIPT_PATHS
        => /\ h[k].notesPath = Str(DEFAULT_NOTES_PATH)
           /\ h[k].transcriptPath = Str(DEFAULT_TRANSCRIPT_PATH)

\* C6: a transcript file write happens only if saveTranscript is true and the
\* source type is youtube or api; a local-file call and a call with
\* saveTranscript=false never write.
C6_WriteOnlyWhenSaving ==
    \A k \in Calls :
        Wrote(k) => Saving(k) /\ TypeOf(k) \in {<<"youtube">>, <<"api">>}

\* C6 witness: a call has written its transcript.
C6_Witness ==
    \E k \in Calls : h[k].pc = "done" /\ Len(h[k].writes) = 1 /\ Saving(k)

\* C7: the acquired transcript text is non-empty whenever the transcript is
\* written or a success envelope is returned.
C7_NonEmptyText ==
    \A k \in Calls :
        Wrote(k) \/ Succeeded(k) =>
            IsString(h[k].transcriptContent) /\ h[k].transcriptContent.v # <<>>

\* The transcript directory the course mapping gives a course name.
MappedTranscriptDir(c) ==
    IF c \in DOMAIN COURSE_TRANSCRIPT_PATHS THEN COURSE_TRANSCRIPT_PATHS[c]
    ELSE DEFAULT_TRANSCRIPT_PATH

\* C8: an api call with saveTranscript=true whose collaborator call succeeds
\* writes exactly one file, at <resolved transcript directory>/<the given
\* transcriptFilename, else the derived name>, holding exactly the data field.
\* (An empty transcriptFilename counts as not supplied, and the write itself
\* is taken not to fail.)
C8_ApiTranscriptSaved ==
    \A k \in Calls :
        /\ h[k].pc = "done" /\ TypeOf(k) = <<"api">> /\ Saving(k)
        /\ ~ApiFailed(h[k].outcome)
        /\ IsString(h[k].outcome.stdout.value.data)
        /\ h[k].writeOk
        => LET p == h[k].params
               name == IF p.transcriptFilename.t = "string" /\ p.transcriptFilename.v # <<>>
                       THEN p.transcriptFilename.v
                       ELSE ReplaceWs(p.courseName.v) \o <<"-Lecture-">>
                            \o p.lectureNumber.v \o <<"-API.txt">>
           IN h[k].writes =
                 <<[path |-> MappedTranscriptDir(p.courseName.v) \o <<"/">> \o name,
                    content |-> h[k].outcome.stdout.value.data.v]>>

\* C9: an api call whose collaborator exits non-zero, prints text that is not
\* JSON, or prints JSON without a data field ends with an error envelope for
\* both values of saveTranscript, and no transcript file is written.
C9_ApiFailureIsError ==
    \A k \in Calls :
        TypeOf(k) = <<"api">> /\ AcquisitionFailed(k) =>
            /\ ~Wrote(k)
            /\ h[k].response.kind # "success"
            /\ (h[k].pc = "done" => h[k].response.isError)

\* C9 witness: an api call that asked to save its transcript ended with an
\* error after the collaborator printed JSON without a data field.
C9_Witness ==
    \E k \in Calls :
        /\ h[k].pc = "done" /\ TypeOf(k) = <<"api">> /\ Saving(k)
        /\ h[k].outcome.exit = 0 /\ h[k].outcome.stdout = Json(Obj(FALSE, Undefined))
        /\ h[k].response.isError

\* C10: the handling of a second call starts no step before the first call
\* has returned its response.
C10_NoOverlap ==
    Cardinality({k \in Calls : Started(k)}) <= 1

\* C10, amended: at most one handler is inside a synchronous stretch, and it
\* holds the thread; every other started handler is suspended at its awaited
\* file read or file write.
C10_OverlapOnlyAtAwait ==
    \A j, k \in Calls :
        InSyncStretch(j) =>
            /\ running = j
            /\ (k # j /\ Started(k) => h[k].pc \in {"awaitRead", "awaitWrite"})

\* C10 witness: a second handler is inside a blocking subprocess call while
\* the first is suspended at its file read.
C10_Witness ==
    \E j, k \in Calls :
        j # k /\ h[j].pc = "awaitRead" /\ h[k].pc = "inExec" /\ running = k

====
